---- MODULE Spec2Model ----
(***************************************************************************)
(* Model of TemplateService (vscode-extension/src/templates/               *)
(* templateService.ts): the save pipeline saveTemplateToWorkspace with its *)
(* helpers ensureBackupDirectory and moveToBackupDirectory, run by one or  *)
(* several asynchronous calls over a shared file system.                   *)
(*                                                                         *)
(* Every `await` of the source is one step of the model.  A file-system    *)
(* or UI call either takes effect completely or throws leaving the file    *)
(* system as it was.                                                       *)
(***************************************************************************)
EXTENDS Integers, Sequences, FiniteSets, TLC

(* ---------------------------- bounds ----------------------------------- *)

\* number of asynchronous callers of saveTemplateToWorkspace
NumProcs == 2
\* total number of save calls started in one behaviour
MaxCalls == 2
\* largest clock reading (milliseconds after the first reading)
MaxClock == 1
\* number of file-system or UI calls that fail for a reason of their own in one behaviour
MaxFaults == 1

Procs == 1..NumProcs

(* ------------------------- paths and contents -------------------------- *)

\* A Uri is the sequence of its path segments.
WorkspaceRoot == <<"ws">>
OtherRoot == <<"ext">>

\* vscode.Uri.joinPath(uri, segment)
joinPath(uri, segment) == Append(uri, segment)

\* path.dirname(uri.fsPath)
dirname(uri) == SubSeq(uri, 1, Len(uri) - 1)

\* uri.path.split('/').pop()
fileNameOf(uri) == uri[Len(uri)]

\* the value of vscode.workspace.workspaceFolders when no folder is open
NoFolders == <<>>

\* explicit target Uris a caller may pass; NoUri is the omitted argument
NoUri == <<>>
ExplicitTargets == {joinPath(WorkspaceRoot, ".cursorrules"), joinPath(OtherRoot, ".cursorrules")}

\* contents of the templates offered (template.content)
TemplateContents == {"T1", "T2"}
\* content of a target document that exists before any save
InitialContents == {"A"}

\* answers of showWarningMessage: a button, or undefined when dismissed
Undefined == "undefined"
Choices == {"Replace", "Cancel", Undefined}

(* ---------------------------- timestamp -------------------------------- *)

Digits == <<"0", "1", "2", "3", "4", "5", "6", "7", "8", "9">>
Digit(n) == Digits[n + 1]
Pad2(n) == <<Digit((n \div 10) % 10), Digit(n % 10)>>

\* the milliseconds field without its leading zeros
Pad3_unpadded(n) ==
    IF n < 10 THEN <<Digit(n)>>
    ELSE IF n < 100 THEN <<Digit(n \div 10), Digit(n % 10)>>
    ELSE <<Digit((n \div 100) % 10), Digit((n \div 10) % 10), Digit(n % 10)>>

Pad3(n) == <<Digit((n \div 100) % 10), Digit((n \div 10) % 10), Digit(n % 10)>>

\* the calendar day of the reading 0 of the clock
BaseDate == <<"2", "0", "2", "4", "-", "0", "1", "-", "0", "1">>

\* milliseconds in a day
DayLength == 86400000

\* the date field of toISOString for a reading t: the days go on from BaseDate within its month
dateOf(t) == SubSeq(BaseDate, 1, 8) \o Pad2(1 + (t \div DayLength))

\* toISOString at the resolution of one second: the milliseconds are left out
toISOString_seconds(t) ==
    dateOf(t) \o <<"T">> \o Pad2((t \div 3600000) % 24) \o <<":">> \o Pad2((t \div 60000) % 60)
        \o <<":">> \o Pad2((t \div 1000) % 60) \o <<"Z">>

\* new Date().toISOString() for a reading t, in milliseconds after 00:00:00.000 of BaseDate
toISOString(t) ==
    dateOf(t) \o <<"T">> \o Pad2((t \div 3600000) % 24) \o <<":">> \o Pad2((t \div 60000) % 60)
        \o <<":">> \o Pad2((t \div 1000) % 60) \o <<".">> \o Pad3(t % 1000) \o <<"Z">>

\* .replace(/[:.]/g, '-')
replaceColonDot(s) == [i \in DOMAIN s |-> IF s[i] \in {":", "."} THEN "-" ELSE s[i]]

RECURSIVE Join(_)
Join(s) == IF s = <<>> THEN "" ELSE s[1] \o Join(Tail(s))

\* const timestamp = new Date().toISOString().replace(/[:.]/g, '-')
timestampOf(t) == Join(replaceColonDot(toISOString(t)))

\* `.cursorrules.${timestamp}.backup`
backupFileName(timestamp) == ".cursorrules." \o timestamp \o ".backup"

\* vscode.Uri.joinPath(targetUri.with({ path: path.dirname(targetUri.fsPath) }), `.cursorrules.${timestamp}.backup`)
siblingBackupUri(target, timestamp) == joinPath(dirname(target), backupFileName(timestamp))

\* vscode.Uri.joinPath(workspaceUri, '.cursorrules-backup')
backupDirOf(workspaceUri) == joinPath(workspaceUri, ".cursorrules-backup")

\* a conversion that ends the content with a line feed
convertTemplateContent_appendNewline(content) == content \o "\n"

\* private convertTemplateContent(content): return content
convertTemplateContent(content) == content

(* ------------------------ cursorrules.schema.json ---------------------- *)

\* JSON values: a string is the sequence of its characters, an array the sequence of its
\* items, an object the function from its property names to their values
JString(chars) == [type |-> "string", value |-> chars]
JNumber(n) == [type |-> "number", value |-> n]
JBoolean(b) == [type |-> "boolean", value |-> b]
JNull == [type |-> "null"]
JArray(items) == [type |-> "array", items |-> items]
JObject(fields) == [type |-> "object", fields |-> fields]

\* "type": t
isType(v, t) == v.type = t

\* the instance is an object that has the property
has(v, name) == isType(v, "object") /\ name \in DOMAIN v.fields

\* \d of an ECMA 262 regular expression
IsDigit(c) == c \in {"0", "1", "2", "3", "4", "5", "6", "7", "8", "9"}

\* \d+ matching the whole of s
allDigits(s) == Len(s) >= 1 /\ \A i \in DOMAIN s : IsDigit(s[i])

\* the pattern without its anchors: some part of s matches \d+\.\d+\.\d+
versionPattern_unanchored(s) ==
    \E i, j \in DOMAIN s :
        /\ i < j
        /\ s[i] = "." /\ s[j] = "."
        /\ i > 1 /\ IsDigit(s[i - 1])
        /\ allDigits(SubSeq(s, i + 1, j - 1))
        /\ j < Len(s) /\ IsDigit(s[j + 1])

\* "pattern": "^\\d+\\.\\d+\\.\\d+$" (schema line 10)
versionPattern(s) ==
    \E i, j \in DOMAIN s :
        /\ i < j
        /\ s[i] = "." /\ s[j] = "."
        /\ allDigits(SubSeq(s, 1, i - 1))
        /\ allDigits(SubSeq(s, i + 1, j - 1))
        /\ allDigits(SubSeq(s, j + 1, Len(s)))

\* "required" of the root (line 6), of languageConfig (24), of rule (36) and of fix (68)
rootRequired == {"version", "languages"}
languageConfigRequired == {"rules"}

\* "required" of rule with the description left out
ruleRequired_noDescription == {"id", "level"}

ruleRequired == {"id", "level", "description"}
fixRequired == {"replace"}

\* "enum" of level (line 44)
levelEnum == {"error", "warning", "info", "hint"}

\* "required": names
hasRequired(v, names) == isType(v, "object") => names \subseteq DOMAIN v.fields

\* a property that is declared "type": t, when the instance has it
propertyIsType(v, name, t) == has(v, name) => isType(v.fields[name], t)

\* properties.fix of rule (lines 55-69)
validFix(v) ==
    /\ isType(v, "object")
    /\ propertyIsType(v, "replace", "string")
    /\ propertyIsType(v, "message", "string")
    /\ hasRequired(v, fixRequired)

\* definitions.rule (lines 34-76)
validRule(v) ==
    /\ isType(v, "object")
    /\ hasRequired(v, ruleRequired)
    /\ propertyIsType(v, "id", "string")
    /\ propertyIsType(v, "level", "string")
    /\ has(v, "level") => (isType(v.fields["level"], "string")
                              => Join(v.fields["level"].value) \in levelEnum)
    /\ propertyIsType(v, "description", "string")
    /\ propertyIsType(v, "pattern", "string")
    /\ has(v, "fix") => validFix(v.fields["fix"])
    /\ propertyIsType(v, "disabled", "boolean")

\* definitions.languageConfig (lines 22-33)
validLanguageConfig(v) ==
    /\ isType(v, "object")
    /\ hasRequired(v, languageConfigRequired)
    /\ has(v, "rules") =>
          /\ isType(v.fields["rules"], "array")
          /\ \A i \in DOMAIN v.fields["rules"].items : validRule(v.fields["rules"].items[i])

\* the root schema (lines 5-20): the document validates against cursorrules.schema.json
validates(doc) ==
    /\ isType(doc, "object")
    /\ hasRequired(doc, rootRequired)
    /\ has(doc, "version") =>
          /\ isType(doc.fields["version"], "string")
          /\ versionPattern(doc.fields["version"].value)
    /\ has(doc, "languages") =>
          /\ isType(doc.fields["languages"], "object")
          /\ \A name \in DOMAIN doc.fields["languages"].fields :
                validLanguageConfig(doc.fields["languages"].fields[name])

\* a property a document may lack
Absent == [type |-> "absent"]

\* the object with the properties of f that are not Absent
objectOf(f) == JObject([name \in {n \in DOMAIN f : f[n] # Absent} |-> f[name]])

\* the rule of the example document of the schema's description
ExampleRule ==
    objectOf([id |-> JString(<<"r", "1">>), level |-> JString(<<"w", "a", "r", "n", "i", "n", "g">>),
              description |-> JString(<<"x">>)])

\* the example document {"version":"1.0.0","languages":{"ts":{"rules":[{"id":"r1",
\* "level":"warning","description":"x"}]}}}
ExampleDocument ==
    objectOf([version |-> JString(<<"1", ".", "0", ".", "0">>),
              languages |-> objectOf([ts |-> objectOf([rules |-> JArray(<<ExampleRule>>)])])])

\* what the text of a template parses to: T1 stands for the text of the example document,
\* every other content for free text, which is no JSON value
NotJson == [type |-> "none"]
templateDocument(content) == IF content = "T1" THEN ExampleDocument ELSE NotJson

\* the content conforms to the schema
conforms(content) == validates(templateDocument(content))

(* ------------------------------ state ---------------------------------- *)

VARIABLES
    fs,                \* the files: a function from the Uri of each existing file to its content
    dirs,              \* the Uris of the existing directories
    workspaceFolders,  \* vscode.workspace.workspaceFolders: NoFolders or a sequence of folder Uris
    clock,             \* the latest reading of new Date(), in milliseconds
    calls,             \* number of save calls started so far
    faults,            \* number of calls of the host that have failed for a reason of their own
    pc,                \* per call: the await the call is suspended at
    template,          \* per call: template.content
    targetUri,         \* per call: targetUri after the default was resolved
    backupUri,         \* per call: backupUri of saveTemplateToWorkspace
    newBackupUri,      \* per call: newBackupUri of moveToBackupDirectory
    outcome,           \* per call: state of the promise the call returned
    log,               \* history: per call, the steps completed so far and their results
    before,            \* history: per call, the file system when the call started
    lastCall,          \* history: the caller of the most recently started call
    replaced,          \* history: contents that confirmed saves have overwritten in a target
    argUri,            \* history: per call, the targetUri argument as the caller passed it
    probe,             \* the latest application of a pure function: its inputs and its results
    raced              \* history: the pairs of running calls that awaited their backup copy on
                       \* one target at the same time

vars == <<fs, dirs, workspaceFolders, clock, calls, faults, pc, template, targetUri, backupUri,
          newBackupUri, outcome, log, before, lastCall, replaced, argUri, probe, raced>>

fsVars == <<fs, dirs>>
localVars == <<template, targetUri, backupUri, newBackupUri>>

(* ---------------------------- file system ------------------------------ *)

exists(uri) == uri \in DOMAIN fs

\* the file system after uri was given the content c
withFile(f, uri, c) == [u \in DOMAIN f \cup {uri} |-> IF u = uri THEN c ELSE f[u]]

\* the file system after uri was removed
withoutFile(f, uri) == [u \in DOMAIN f \ {uri} |-> f[u]]

\* one entry of the history of a call
Event(step, result) == [step |-> step, result |-> result]

logged(p, step, result) == [log EXCEPT ![p] = Append(@, Event(step, result))]

logged2(p, s1, r1, s2, r2) == [log EXCEPT ![p] = Append(Append(@, Event(s1, r1)), Event(s2, r2))]

\* no pure function has been applied
NoProbe == [op |-> "none"]

(* ------------------------------- Init ---------------------------------- *)

Init ==
    /\ \E existing \in SUBSET ExplicitTargets : \E c \in InitialContents :
           fs = [u \in existing |-> c]
    /\ \E withBackupDir \in BOOLEAN :
           dirs = {WorkspaceRoot, OtherRoot}
                    \cup (IF withBackupDir THEN {backupDirOf(WorkspaceRoot)} ELSE {})
    /\ workspaceFolders \in {NoFolders, <<WorkspaceRoot>>}
    /\ clock = 0
    /\ calls = 0
    /\ faults = 0
    /\ pc = [p \in Procs |-> "idle"]
    /\ template = [p \in Procs |-> ""]
    /\ targetUri = [p \in Procs |-> NoUri]
    /\ backupUri = [p \in Procs |-> NoUri]
    /\ newBackupUri = [p \in Procs |-> NoUri]
    /\ outcome = [p \in Procs |-> "none"]
    /\ log = [p \in Procs |-> <<>>]
    /\ before = [p \in Procs |-> [fs |-> <<>>, dirs |-> {}]]
    /\ lastCall = 0
    /\ replaced = {}
    /\ argUri = [p \in Procs |-> NoUri]
    /\ probe = NoProbe
    /\ raced = {}

(* ------------------------ saveTemplateToWorkspace ---------------------- *)

\* next with the move into the backup directory left out: the write follows the copy
next_skipMove(step) ==
    CASE step = "stat" -> "prompt"
      [] step = "prompt" -> "copy"
      [] step = "copy" -> "write"
      [] step = "ensureStat" -> "moveCopy"
      [] step = "createDirectory" -> "moveCopy"
      [] step = "moveCopy" -> "moveDelete"
      [] step = "moveDelete" -> "write"
      [] step = "write" -> "open"
      [] step = "open" -> "show"
      [] step = "show" -> "done"

\* next with the write issued before the delete that ends the move has been awaited
next_writeBeforeDelete(step) ==
    CASE step = "stat" -> "prompt"
      [] step = "prompt" -> "copy"
      [] step = "copy" -> "ensureStat"
      [] step = "ensureStat" -> "moveCopy"
      [] step = "createDirectory" -> "moveCopy"
      [] step = "moveCopy" -> "write"
      [] step = "write" -> "moveDelete"
      [] step = "moveDelete" -> "open"
      [] step = "open" -> "show"
      [] step = "show" -> "done"

\* next with the call awaiting, after the document is shown, the closing of its editor
next_awaitsClose(step) ==
    CASE step = "stat" -> "prompt"
      [] step = "prompt" -> "copy"
      [] step = "copy" -> "ensureStat"
      [] step = "ensureStat" -> "moveCopy"
      [] step = "createDirectory" -> "moveCopy"
      [] step = "moveCopy" -> "moveDelete"
      [] step = "moveDelete" -> "write"
      [] step = "write" -> "open"
      [] step = "open" -> "show"
      [] step = "show" -> "closed"

\* the await that follows the await `step` when it returns normally ("done": the call returns)
next(step) ==
    CASE step = "stat" -> "prompt"                \* 113 -> 115
      [] step = "prompt" -> "copy"                \* 115 -> 131, when the choice is 'Replace'
      [] step = "copy" -> "ensureStat"            \* 131 -> 134 -> 80 -> 63
      [] step = "ensureStat" -> "moveCopy"        \* 63 -> 68 -> 90
      [] step = "createDirectory" -> "moveCopy"   \* 66 -> 68 -> 90
      [] step = "moveCopy" -> "moveDelete"        \* 90 -> 91
      [] step = "moveDelete" -> "write"           \* 91 -> 95 -> 140
      [] step = "write" -> "open"                 \* 140 -> 146
      [] step = "open" -> "show"                  \* 146 -> 147
      [] step = "show" -> "done"                  \* 147 -> 151

\* throwTo with the catch at 92 rethrowing: a failed move makes the save fail
throwTo_moveRethrows(step) ==
    CASE step \in {"stat", "prompt", "copy"} -> "write"
      [] step = "ensureStat" -> "createDirectory"
      [] step \in {"workspace", "createDirectory", "moveCopy", "moveDelete"} -> "rejected"
      [] step \in {"resolve", "write", "open", "show"} -> "rejected"

\* throwTo with a failed existence check leading to the prompt
throwTo_statAsks(step) ==
    CASE step = "stat" -> "prompt"
      [] step \in {"prompt", "copy"} -> "write"
      [] step = "ensureStat" -> "createDirectory"
      [] step \in {"workspace", "createDirectory", "moveCopy", "moveDelete"} -> "write"
      [] step \in {"resolve", "write", "open", "show"} -> "rejected"

\* throwTo with a missing workspace folder ignored: the save goes on to its write
throwTo_resolveIgnored(step) ==
    CASE step = "stat" -> "write"
      [] step \in {"prompt", "copy"} -> "write"
      [] step = "ensureStat" -> "createDirectory"
      [] step \in {"workspace", "createDirectory", "moveCopy", "moveDelete"} -> "write"
      [] step = "resolve" -> "write"
      [] step \in {"write", "open", "show"} -> "rejected"

\* throwTo with the delete of the sibling issued also when the copy into the directory threw
throwTo_moveCopyDeletes(step) ==
    CASE step \in {"stat", "prompt", "copy"} -> "write"
      [] step = "ensureStat" -> "createDirectory"
      [] step = "moveCopy" -> "moveDelete"
      [] step \in {"workspace", "createDirectory", "moveDelete"} -> "write"
      [] step \in {"resolve", "write", "open", "show"} -> "rejected"

\* throwTo with an empty catch in ensureBackupDirectory: the directory is not created
throwTo_noCreate(step) ==
    CASE step \in {"stat", "prompt", "copy"} -> "write"
      [] step = "ensureStat" -> "moveCopy"
      [] step \in {"workspace", "createDirectory", "moveCopy", "moveDelete"} -> "write"
      [] step \in {"resolve", "write", "open", "show"} -> "rejected"

\* throwTo with a failure to open or show the written document swallowed
throwTo_openSwallowed(step) ==
    CASE step \in {"stat", "prompt", "copy"} -> "write"
      [] step = "ensureStat" -> "createDirectory"
      [] step \in {"workspace", "createDirectory", "moveCopy", "moveDelete"} -> "write"
      [] step \in {"resolve", "write"} -> "rejected"
      [] step \in {"open", "show"} -> "done"

\* the await that follows the await `step` when it throws ("rejected": the call throws)
throwTo(step) ==
    CASE step \in {"stat", "prompt", "copy"} -> "write"                 \* catch (e) at 135, then 140
      [] step = "ensureStat" -> "createDirectory"                       \* catch at 64, then 66
      [] step \in {"workspace", "createDirectory", "moveCopy", "moveDelete"} -> "write"
                                                                        \* catch (error) at 92, then 140
      [] step \in {"resolve", "write", "open", "show"} -> "rejected"    \* catch (error) at 148, throw at 149

\* the call is over: its promise is settled
settle(p, how) ==
    /\ pc' = [pc EXCEPT ![p] = "done"]
    /\ outcome' = [outcome EXCEPT ![p] = how]

\* the call goes on to the await `to`, or is over when there is none
goto(p, to) ==
    IF to \in {"done", "rejected"}
    THEN settle(p, IF to = "done" THEN "resolved" ELSE "rejected")
    ELSE /\ pc' = [pc EXCEPT ![p] = to]
         /\ UNCHANGED outcome

\* A caller invokes saveTemplateToWorkspace(template, targetUri?); the body runs up to
\* its first await: the default target is resolved (lines 100-106), the content is
\* converted (109) and stat is issued (113).
\* (callers are anonymous: a new call takes the lowest slot that holds no running call)
Call(p) ==
    /\ pc[p] \in {"idle", "done"}
    /\ \A q \in Procs : q < p => pc[q] \notin {"idle", "done"}
    /\ calls < MaxCalls
    /\ calls' = calls + 1
    /\ lastCall' = p
    /\ before' = [before EXCEPT ![p] = [fs |-> fs, dirs |-> dirs]]
    /\ \E t \in TemplateContents, arg \in ExplicitTargets \cup {NoUri} :
        /\ template' = [template EXCEPT ![p] = t]
        /\ argUri' = [argUri EXCEPT ![p] = arg]
        /\ backupUri' = [backupUri EXCEPT ![p] = NoUri]
        /\ newBackupUri' = [newBackupUri EXCEPT ![p] = NoUri]
        /\ IF arg = NoUri /\ workspaceFolders = NoFolders
           THEN \* throw new Error('No workspace folder found') (103)
                /\ targetUri' = [targetUri EXCEPT ![p] = NoUri]
                /\ log' = [log EXCEPT ![p] = <<Event("resolve", "noFolder")>>]
                /\ goto(p, throwTo("resolve"))
           ELSE /\ targetUri' = [targetUri EXCEPT ![p] =
                        IF arg = NoUri THEN joinPath(workspaceFolders[1], ".cursorrules") ELSE arg]
                /\ log' = [log EXCEPT ![p] = <<>>]
                /\ pc' = [pc EXCEPT ![p] = "stat"]
                /\ outcome' = [outcome EXCEPT ![p] = "pending"]
    /\ raced' = {pair \in raced : p \notin pair}
    /\ UNCHANGED <<fs, dirs, workspaceFolders, clock, faults, replaced, probe>>

\* a file-system or UI call fails for a reason of its own (I/O error, permission, host
\* failure); MaxFaults bounds how often this happens in one behaviour
Fault ==
    /\ faults < MaxFaults
    /\ faults' = faults + 1

NoFault == UNCHANGED faults

\* await vscode.workspace.fs.stat(targetUri) (113); a throw is caught at 135
StatTarget(p) ==
    /\ pc[p] = "stat"
    /\ \/ /\ exists(targetUri[p])
          /\ NoFault
          /\ log' = logged(p, "stat", "ok")
          /\ goto(p, next("stat"))
       \/ /\ ~exists(targetUri[p])
          /\ NoFault
          /\ log' = logged(p, "stat", "notFound")
          /\ goto(p, throwTo("stat"))
       \/ /\ exists(targetUri[p])
          /\ Fault
          /\ log' = logged(p, "stat", "error")
          /\ goto(p, throwTo("stat"))
    /\ UNCHANGED <<fsVars, workspaceFolders, clock, calls, localVars, before, lastCall, replaced, argUri, probe, raced>>

\* isReplace taking a dismissed prompt for a consent
isReplace_notCancel(choice) == choice # "Cancel"

\* choice !== 'Replace' (121)
isReplace(choice) == choice = "Replace"

\* await vscode.window.showWarningMessage(...) (115-119), the test of the choice (121-123)
\* and the computation of backupUri (126-130), up to the copy being issued (131); a throw of
\* the prompt is caught at 135.  new Date() reads the clock, which never runs backwards.
ShowWarningMessage(p) ==
    /\ pc[p] = "prompt"
    /\ \/ \E choice \in Choices :
            /\ NoFault
            /\ log' = logged(p, "prompt", choice)
            /\ IF isReplace(choice)
               THEN /\ \E now \in clock..MaxClock :
                         /\ clock' = now
                         /\ backupUri' = [backupUri EXCEPT ![p] =
                                siblingBackupUri(targetUri[p], timestampOf(now))]
                    /\ goto(p, next("prompt"))
               ELSE /\ goto(p, "done")    \* return (122)
                    /\ UNCHANGED <<backupUri, clock>>
       \/ /\ Fault
          /\ log' = logged(p, "prompt", "error")
          /\ goto(p, throwTo("prompt"))
          /\ UNCHANGED <<backupUri, clock>>
    /\ raced' = raced \cup {{p, q} : q \in {r \in Procs \ {p} :
                                  /\ pc'[p] = "copy" /\ pc[r] = "copy"
                                  /\ targetUri[r] = targetUri[p]}}
    /\ UNCHANGED <<fsVars, workspaceFolders, calls, template, targetUri, newBackupUri,
                   before, lastCall, replaced, argUri, probe>>

\* vscode.workspace.fs.copy(source, destination, { overwrite }) can take effect
canCopy(source, destination, overwrite) ==
    /\ exists(source)
    /\ dirname(destination) \in dirs
    /\ overwrite \/ ~exists(destination)

\* { overwrite: true } of the copy of the target to backupUri (131)
backupCopyOverwrite == TRUE

\* the copy into the backup directory made with { overwrite: true }
moveCopyOverwrite_true == TRUE

\* { overwrite: false } of the copy of backupUri into the backup directory (90)
moveCopyOverwrite == FALSE

\* await vscode.workspace.fs.copy(targetUri, backupUri, { overwrite: true }) (131); a throw is
\* caught at 135.  On success moveToBackupDirectory starts and runs up to its first await:
\* the workspace folder is looked up (74-77) and ensureBackupDirectory issues stat (61-63).
BackupCopy(p) ==
    /\ pc[p] = "copy"
    /\ \/ /\ canCopy(targetUri[p], backupUri[p], backupCopyOverwrite)
          /\ NoFault
          /\ fs' = withFile(fs, backupUri[p], fs[targetUri[p]])
          /\ IF workspaceFolders = NoFolders
             THEN \* throw new Error('No workspace folder found'), caught at 92
                  /\ log' = logged2(p, "copy", "ok", "workspace", "noFolder")
                  /\ goto(p, throwTo("workspace"))
             ELSE /\ log' = logged(p, "copy", "ok")
                  /\ goto(p, next("copy"))
       \/ /\ ~canCopy(targetUri[p], backupUri[p], backupCopyOverwrite)
          /\ NoFault
          /\ log' = logged(p, "copy", "refused")
          /\ goto(p, throwTo("copy"))
          /\ UNCHANGED fs
       \/ /\ canCopy(targetUri[p], backupUri[p], backupCopyOverwrite)
          /\ Fault
          /\ log' = logged(p, "copy", "error")
          /\ goto(p, throwTo("copy"))
          /\ UNCHANGED fs
    /\ UNCHANGED <<dirs, workspaceFolders, clock, calls, localVars, before, lastCall, replaced, argUri, probe, raced>>

\* ensureBackupDirectory: await vscode.workspace.fs.stat(backupDirUri) (63).  On success the
\* directory Uri is returned and moveToBackupDirectory computes newBackupUri (83-87) and
\* issues the copy (90); a throw is caught at 64 and createDirectory is issued (66).
EnsureBackupDirectoryStat(p) ==
    /\ pc[p] = "ensureStat"
    /\ LET backupDirUri == backupDirOf(workspaceFolders[1]) IN
       \/ /\ backupDirUri \in dirs
          /\ NoFault
          /\ log' = logged(p, "ensureStat", "ok")
          /\ newBackupUri' = [newBackupUri EXCEPT ![p] =
                                 joinPath(backupDirUri, fileNameOf(backupUri[p]))]
          /\ goto(p, next("ensureStat"))
       \/ /\ backupDirUri \notin dirs
          /\ NoFault
          /\ log' = logged(p, "ensureStat", "notFound")
          /\ goto(p, throwTo("ensureStat"))
          /\ UNCHANGED newBackupUri
       \/ /\ backupDirUri \in dirs
          /\ Fault
          /\ log' = logged(p, "ensureStat", "error")
          /\ goto(p, throwTo("ensureStat"))
          /\ UNCHANGED newBackupUri
    /\ UNCHANGED <<fsVars, workspaceFolders, clock, calls, template, targetUri, backupUri,
                   before, lastCall, replaced, argUri, probe, raced>>

\* ensureBackupDirectory: await vscode.workspace.fs.createDirectory(backupDirUri) (66), which
\* succeeds on a directory that exists; a throw leaves ensureBackupDirectory and is caught at 92
EnsureBackupDirectoryCreate(p) ==
    /\ pc[p] = "createDirectory"
    /\ LET backupDirUri == backupDirOf(workspaceFolders[1]) IN
       \/ /\ NoFault
          /\ dirs' = dirs \cup {backupDirUri}
          /\ log' = logged(p, "createDirectory", "ok")
          /\ newBackupUri' = [newBackupUri EXCEPT ![p] =
                                 joinPath(backupDirUri, fileNameOf(backupUri[p]))]
          /\ goto(p, next("createDirectory"))
       \/ /\ Fault
          /\ log' = logged(p, "createDirectory", "error")
          /\ goto(p, throwTo("createDirectory"))
          /\ UNCHANGED <<dirs, newBackupUri>>
    /\ UNCHANGED <<fs, workspaceFolders, clock, calls, template, targetUri, backupUri,
                   before, lastCall, replaced, argUri, probe, raced>>

\* moveToBackupDirectory: await vscode.workspace.fs.copy(backupUri, newBackupUri,
\* { overwrite: false }) (90); a throw is caught at 92 and writeFile is issued (140)
MoveCopy(p) ==
    /\ pc[p] = "moveCopy"
    /\ \/ /\ canCopy(backupUri[p], newBackupUri[p], moveCopyOverwrite)
          /\ NoFault
          /\ fs' = withFile(fs, newBackupUri[p], fs[backupUri[p]])
          /\ log' = logged(p, "moveCopy", "ok")
          /\ goto(p, next("moveCopy"))
       \/ /\ ~canCopy(backupUri[p], newBackupUri[p], moveCopyOverwrite)
          /\ NoFault
          /\ log' = logged(p, "moveCopy", "refused")
          /\ goto(p, throwTo("moveCopy"))
          /\ UNCHANGED fs
       \/ /\ canCopy(backupUri[p], newBackupUri[p], moveCopyOverwrite)
          /\ Fault
          /\ log' = logged(p, "moveCopy", "error")
          /\ goto(p, throwTo("moveCopy"))
          /\ UNCHANGED fs
    /\ UNCHANGED <<dirs, workspaceFolders, clock, calls, localVars, before, lastCall, replaced, argUri, probe, raced>>

\* MoveDelete deleting the target in place of the sibling backup
MoveDelete_target(p) ==
    /\ pc[p] = "moveDelete"
    /\ \/ /\ exists(targetUri[p])
          /\ NoFault
          /\ fs' = withoutFile(fs, targetUri[p])
          /\ log' = logged(p, "moveDelete", "ok")
          /\ goto(p, next("moveDelete"))
       \/ /\ ~exists(targetUri[p])
          /\ NoFault
          /\ log' = logged(p, "moveDelete", "notFound")
          /\ goto(p, throwTo("moveDelete"))
          /\ UNCHANGED fs
       \/ /\ exists(targetUri[p])
          /\ Fault
          /\ log' = logged(p, "moveDelete", "error")
          /\ goto(p, throwTo("moveDelete"))
          /\ UNCHANGED fs
    /\ UNCHANGED <<dirs, workspaceFolders, clock, calls, localVars, before, lastCall, replaced, argUri, probe, raced>>

\* moveToBackupDirectory: await vscode.workspace.fs.delete(backupUri) (91); a throw is caught
\* at 92.  Either way moveToBackupDirectory returns and writeFile is issued (140).
MoveDelete(p) ==
    /\ pc[p] = "moveDelete"
    /\ \/ /\ exists(backupUri[p])
          /\ NoFault
          /\ fs' = withoutFile(fs, backupUri[p])
          /\ log' = logged(p, "moveDelete", "ok")
          /\ goto(p, next("moveDelete"))
       \/ /\ ~exists(backupUri[p])
          /\ NoFault
          /\ log' = logged(p, "moveDelete", "notFound")
          /\ goto(p, throwTo("moveDelete"))
          /\ UNCHANGED fs
       \/ /\ exists(backupUri[p])
          /\ Fault
          /\ log' = logged(p, "moveDelete", "error")
          /\ goto(p, throwTo("moveDelete"))
          /\ UNCHANGED fs
    /\ UNCHANGED <<dirs, workspaceFolders, clock, calls, localVars, before, lastCall, replaced, argUri, probe, raced>>

\* the call obtained the answer 'Replace'
Confirmed(p) == \E i \in DOMAIN log[p] : log[p][i] = Event("prompt", "Replace")

\* WriteFile with a validation before the write: a content that does not conform is refused
WriteFile_validated(p) ==
    /\ pc[p] = "write"
    /\ \/ /\ conforms(template[p])
          /\ NoFault
          /\ fs' = withFile(fs, targetUri[p], convertTemplateContent(template[p]))
          /\ replaced' = IF exists(targetUri[p]) /\ Confirmed(p)
                         THEN replaced \cup {fs[targetUri[p]]} ELSE replaced
          /\ log' = logged(p, "write", "ok")
          /\ goto(p, next("write"))
       \/ /\ ~conforms(template[p])
          /\ NoFault
          /\ log' = logged(p, "write", "invalid")
          /\ goto(p, "rejected")
          /\ UNCHANGED <<fs, replaced>>
       \/ /\ Fault
          /\ log' = logged(p, "write", "error")
          /\ goto(p, throwTo("write"))
          /\ UNCHANGED <<fs, replaced>>
    /\ UNCHANGED <<dirs, workspaceFolders, clock, calls, localVars, before, lastCall, argUri, probe, raced>>

\* await vscode.workspace.fs.writeFile(targetUri, Buffer.from(convertedContent, 'utf-8')) (140);
\* a throw is caught at 148 and rethrown (149)
WriteFile(p) ==
    /\ pc[p] = "write"
    /\ \/ /\ NoFault
          /\ fs' = withFile(fs, targetUri[p], convertTemplateContent(template[p]))
          /\ replaced' = IF exists(targetUri[p]) /\ Confirmed(p)
                         THEN replaced \cup {fs[targetUri[p]]} ELSE replaced
          /\ log' = logged(p, "write", "ok")
          /\ goto(p, next("write"))
       \/ /\ Fault
          /\ log' = logged(p, "write", "error")
          /\ goto(p, throwTo("write"))
          /\ UNCHANGED <<fs, replaced>>
    /\ UNCHANGED <<dirs, workspaceFolders, clock, calls, localVars, before, lastCall, argUri, probe, raced>>

\* await vscode.workspace.openTextDocument(targetUri) (146); a throw is rethrown (149)
OpenTextDocument(p) ==
    /\ pc[p] = "open"
    /\ \/ /\ exists(targetUri[p])
          /\ NoFault
          /\ log' = logged(p, "open", "ok")
          /\ goto(p, next("open"))
       \/ /\ Fault
          /\ log' = logged(p, "open", "error")
          /\ goto(p, throwTo("open"))
    /\ UNCHANGED <<fsVars, workspaceFolders, clock, calls, localVars, before, lastCall, replaced, argUri, probe, raced>>

\* await vscode.window.showTextDocument(document) (147); a throw is rethrown (149)
ShowTextDocument(p) ==
    /\ pc[p] = "show"
    /\ \/ /\ NoFault
          /\ log' = logged(p, "show", "ok")
          /\ goto(p, next("show"))
       \/ /\ Fault
          /\ log' = logged(p, "show", "error")
          /\ goto(p, throwTo("show"))
    /\ UNCHANGED <<fsVars, workspaceFolders, clock, calls, localVars, before, lastCall, replaced, argUri, probe, raced>>

\* the value the promise of saveTemplateToWorkspace (Promise<void>, 97) is fulfilled with when
\* the call returns after the await `step`: `return;` after the prompt (122), the end of the
\* body after showTextDocument (147-151)
returnValue(step) ==
    CASE step = "prompt" -> Undefined
      [] step = "show" -> Undefined

\* the files one call of saveTemplateToWorkspace(template, target) leaves when it runs alone and
\* every request succeeds, from the files f it finds, the workspace folders, the answer to
\* the prompt and the clock reading (lines 111-140 and 71-95 taken as one step)
saveResult(f, folders, target, content, choice, now) ==
    IF target \notin DOMAIN f
    THEN withFile(f, target, convertTemplateContent(content))
    ELSE IF choice # "Replace"
    THEN f
    ELSE LET sibling == siblingBackupUri(target, timestampOf(now))
             copied == withFile(f, sibling, f[target])
             moved ==
                 IF folders = NoFolders
                 THEN copied
                 ELSE LET destination == joinPath(backupDirOf(folders[1]), fileNameOf(sibling)) IN
                      IF destination \in DOMAIN copied /\ ~moveCopyOverwrite
                      THEN copied
                      ELSE withoutFile(withFile(copied, destination, copied[sibling]), sibling)
         IN withFile(moved, target, convertTemplateContent(content))

\* one step of a call that has started
Step(p) ==
    \/ StatTarget(p)
    \/ ShowWarningMessage(p)
    \/ BackupCopy(p)
    \/ EnsureBackupDirectoryStat(p)
    \/ EnsureBackupDirectoryCreate(p)
    \/ MoveCopy(p)
    \/ MoveDelete(p)
    \/ WriteFile(p)
    \/ OpenTextDocument(p)
    \/ ShowTextDocument(p)

\* no call is between its start and its settlement
Quiescent == \A q \in Procs : pc[q] \in {"idle", "done"}

\* callers may call while other calls are suspended (no lock in the source)
Next ==
    \/ \E p \in Procs : Call(p)
    \/ \E p \in Procs : Step(p)

Spec == Init /\ [][Next]_vars

\* a caller calls only when every earlier call has settled
CallSeq(p) == Quiescent /\ Call(p)

NextSeq ==
    \/ \E p \in Procs : CallSeq(p)
    \/ \E p \in Procs : Step(p)

SpecSeq == Init /\ [][NextSeq]_vars

\* one call at a time, every awaited promise (file system, prompt, editor) settling in the
\* end: the continuation of a suspended call is run once its promise has settled
SpecSeqFair == SpecSeq /\ \A p \in Procs : WF_vars(Step(p))

(* --------------------------- pure functions ---------------------------- *)

\* vscode.Uri.joinPath(backupDirUri, fileName) with fileName = backupUri.path.split('/').pop():
\* where moveToBackupDirectory puts the sibling backup (79-87)
movedBackupUri(backupUri_, workspaceUri) ==
    joinPath(backupDirOf(workspaceUri), fileNameOf(backupUri_))

\* the names one save gives its backup: for a target, a workspace folder and a clock reading
backupNames(target, workspaceUri, now) ==
    LET timestamp == timestampOf(now)
        sibling == siblingBackupUri(target, timestamp)
    IN [target |-> target, now |-> now, timestamp |-> timestamp,
        backupUri |-> sibling, newBackupUri |-> movedBackupUri(sibling, workspaceUri)]

\* targets the naming is applied to: the explicit targets and a second rules file in the
\* workspace folder
ProbeTargets == ExplicitTargets \cup {joinPath(WorkspaceRoot, "team.cursorrules")}

\* clock readings the naming is applied to, from the day of BaseDate on: the readings of the
\* model and the readings around a new digit of the milliseconds, a new second, minute,
\* hour, tenth hour, day and tenth day
ProbeReadings ==
    (0..MaxClock) \cup {9, 10, 99, 100, 999, 1000, 59999, 60000, 3599999, 3600000,
                        35999999, 36000000, 86399999, 86400000, 777600000, 864000000}

\* contents convertTemplateContent is applied to
ProbeContents == TemplateContents \cup {"", "# Rules\n", "a\r\nb", "  x  ", "{\"rules\": []}"}

\* version strings validation is applied to
ProbeVersions ==
    { <<"1", ".", "0", ".", "0">>, <<"1", "0", ".", "2", ".", "3", "3">>,
      <<"1", ".", "0">>, <<"1", ".", "0", ".", "0", ".", "0">>,
      <<"v", "1", ".", "0", ".", "0">>, <<"1", ".", "0", ".", "0", "\n">>,
      <<"1", ".", "0", ".", "0", "-", "r", "c">>, <<"1", ".", ".", "0">>,
      <<".", "0", ".", "0">>, <<"1", ".", "0", ".">>, <<"1", ".", "x", ".", "0">>, <<>> }

\* rules validation is applied to: every property present or absent, of the declared type or
\* of another one, the level inside and outside the enumeration
ProbeRules ==
    { objectOf([id |-> id, level |-> level, description |-> description, fix |-> fix,
                pattern |-> extra.pattern, disabled |-> extra.disabled]) :
        id \in {Absent, JString(<<"r", "1">>), JNumber(1)},
        level \in {Absent, JNumber(1)}
                    \cup {JString(l) : l \in { <<"e", "r", "r", "o", "r">>,
                                               <<"w", "a", "r", "n", "i", "n", "g">>,
                                               <<"i", "n", "f", "o">>, <<"h", "i", "n", "t">>,
                                               <<"c", "r", "i", "t", "i", "c", "a", "l">>,
                                               <<"E", "r", "r", "o", "r">> }},
        description \in {Absent, JString(<<"x">>), JNull},
        fix \in {Absent, JString(<<"x">>),
                 objectOf([replace |-> JString(<<"y">>), message |-> Absent]),
                 objectOf([replace |-> JString(<<"y">>), message |-> JString(<<"m">>)]),
                 objectOf([replace |-> Absent, message |-> JString(<<"m">>)]),
                 objectOf([replace |-> Absent, message |-> Absent]),
                 objectOf([replace |-> JNumber(1), message |-> Absent])},
        extra \in {[pattern |-> Absent, disabled |-> Absent],
                   [pattern |-> JString(<<"a", "+">>), disabled |-> Absent],
                   [pattern |-> JNumber(1), disabled |-> Absent],
                   [pattern |-> Absent, disabled |-> JBoolean(FALSE)],
                   [pattern |-> Absent, disabled |-> JString(<<"n", "o">>)]} }
    \cup {JString(<<"r", "1">>)}

\* language configurations validation is applied to
ProbeLanguageConfigs ==
    {JString(<<"x">>), objectOf([rules |-> Absent]), objectOf([rules |-> JString(<<"x">>)]),
     objectOf([rules |-> JArray(<<>>)])}
    \cup {objectOf([rules |-> JArray(<<rule>>)]) : rule \in ProbeRules}
    \cup {objectOf([rules |-> JArray(<<ExampleRule, rule>>)]) : rule \in ProbeRules}

\* languages values validation is applied to
ProbeLanguages ==
    {Absent, JString(<<"x">>), objectOf([ts |-> Absent, py |-> Absent])}
    \cup {objectOf([ts |-> config, py |-> Absent]) : config \in ProbeLanguageConfigs}
    \cup {objectOf([ts |-> objectOf([rules |-> JArray(<<ExampleRule>>)]), py |-> config]) :
             config \in ProbeLanguageConfigs}

\* documents validation is applied to: every version with the languages of the example
\* document or without languages, every languages value with the version 1.0.0, with the
\* version 1.0 or without version, and values that are no objects
ProbeDocuments ==
    { objectOf([version |-> version, languages |-> languages]) :
        version \in {Absent, JNumber(1)} \cup {JString(v) : v \in ProbeVersions},
        languages \in {Absent, JString(<<"x">>), objectOf([ts |-> Absent, py |-> Absent]),
                       objectOf([ts |-> objectOf([rules |-> JArray(<<ExampleRule>>)])])} }
    \cup { objectOf([version |-> version, languages |-> languages]) :
             version \in {Absent, JString(<<"1", ".", "0", ".", "0">>), JString(<<"1", ".", "0">>)},
             languages \in ProbeLanguages }
    \cup {JString(<<"x">>), JArray(<<>>), JNull}

\* a document is validated against cursorrules.schema.json
ProbeValidate ==
    /\ probe = NoProbe
    /\ \E doc \in ProbeDocuments :
           probe' = [op |-> "validate", doc |-> doc, valid |-> validates(doc)]
    /\ UNCHANGED <<fs, dirs, workspaceFolders, clock, calls, faults, pc, template, targetUri,
                   backupUri, newBackupUri, outcome, log, before, lastCall, replaced, argUri, raced>>

\* the naming of the backups of two saves
ProbeBackupNames ==
    /\ probe = NoProbe
    /\ \E t1, t2 \in ProbeTargets, now1, now2 \in ProbeReadings,
          root \in {WorkspaceRoot, OtherRoot} :
           probe' = [op |-> "backupNames",
                     first |-> backupNames(t1, root, now1),
                     second |-> backupNames(t2, root, now2)]
    /\ UNCHANGED <<fs, dirs, workspaceFolders, clock, calls, faults, pc, template, targetUri,
                   backupUri, newBackupUri, outcome, log, before, lastCall, replaced, argUri, raced>>

\* convertTemplateContent applied once and twice
ProbeConvert ==
    /\ probe = NoProbe
    /\ \E content \in ProbeContents :
           probe' = [op |-> "convertTemplateContent",
                     content |-> content,
                     once |-> convertTemplateContent(content),
                     twice |-> convertTemplateContent(convertTemplateContent(content))]
    /\ UNCHANGED <<fs, dirs, workspaceFolders, clock, calls, faults, pc, template, targetUri,
                   backupUri, newBackupUri, outcome, log, before, lastCall, replaced, argUri, raced>>

\* no save is called: one pure function is applied, to any input of the probe sets
InitPure ==
    /\ fs = <<>>
    /\ dirs = {WorkspaceRoot, OtherRoot}
    /\ workspaceFolders = <<WorkspaceRoot>>
    /\ clock = 0
    /\ calls = 0
    /\ faults = 0
    /\ pc = [p \in Procs |-> "idle"]
    /\ template = [p \in Procs |-> ""]
    /\ targetUri = [p \in Procs |-> NoUri]
    /\ backupUri = [p \in Procs |-> NoUri]
    /\ newBackupUri = [p \in Procs |-> NoUri]
    /\ outcome = [p \in Procs |-> "none"]
    /\ log = [p \in Procs |-> <<>>]
    /\ before = [p \in Procs |-> [fs |-> <<>>, dirs |-> {}]]
    /\ lastCall = 0
    /\ replaced = {}
    /\ argUri = [p \in Procs |-> NoUri]
    /\ probe = NoProbe
    /\ raced = {}

NextPure ==
    \/ ProbeBackupNames
    \/ ProbeConvert
    \/ ProbeValidate

SpecPure == InitPure /\ [][NextPure]_vars

(* --------------------------- read operations --------------------------- *)

\* the extensionPath given to the constructor (16)
ExtensionPath == <<"opt", "extension">>

\* this.rulesPath = path.join(path.dirname(extensionPath), 'rules') (17)
rulesPath == joinPath(dirname(ExtensionPath), "rules")

\* the directories of the template library, and the categories callers ask for
Categories == {"python", "go"}
CategoryArgs == Categories \cup {"rust"}

\* path.join(categoryPath, '.cursorrules') with categoryPath = path.join(this.rulesPath, category) (33-34)
templateFile(category) == joinPath(joinPath(rulesPath, category), ".cursorrules")

\* contents of template files, as sequences of characters: "# A\nb", "\n# A", "  \n# A", "",
\* " # A \n" and "# A\r\nb"
LibraryContents ==
    { <<"#", " ", "A", "\n", "b">>, <<"\n", "#", " ", "A">>, <<" ", " ", "\n", "#", " ", "A">>,
      <<>>, <<" ", "#", " ", "A", " ", "\n">>, <<"#", " ", "A", "\r", "\n", "b">> }

\* content.split('\n')
RECURSIVE splitLines(_)
splitLines(s) ==
    LET feeds == {i \in DOMAIN s : s[i] = "\n"} IN
    IF feeds = {}
    THEN <<s>>
    ELSE LET first == CHOOSE i \in feeds : \A j \in feeds : i <= j IN
         <<SubSeq(s, 1, first - 1)>> \o splitLines(SubSeq(s, first + 1, Len(s)))

\* the white space and line terminators String.prototype.trim removes
WhiteSpace == {" ", "\t", "\r", "\n"}

RECURSIVE trimStart(_)
trimStart(s) == IF s # <<>> /\ Head(s) \in WhiteSpace THEN trimStart(Tail(s)) ELSE s

RECURSIVE trimEnd(_)
trimEnd(s) ==
    IF s # <<>> /\ s[Len(s)] \in WhiteSpace THEN trimEnd(SubSeq(s, 1, Len(s) - 1)) ELSE s

\* .trim()
trim(s) == trimEnd(trimStart(s))

\* description: content.split('\n')[0].trim() (40)
descriptionOf(content) == trim(splitLines(content)[1])

\* a template whose content has lost its surrounding white space
templateOf_trimmedContent(category, content) ==
    [id |-> category, name |-> category, category |-> category,
     description |-> descriptionOf(content), content |-> trim(content)]

\* the RuleTemplate of lines 36-42
templateOf(category, content) ==
    [id |-> category, name |-> category, category |-> category,
     description |-> descriptionOf(content), content |-> content]

\* what a promise settles with
fulfilled(value) == [status |-> "fulfilled", value |-> value]
rejected(message) == [status |-> "rejected", message |-> message]

\* fs.promises.readdir(path, { withFileTypes: true }): the entries of a directory
readdir(f, d, path) ==
    {[name |-> fileNameOf(x), isDirectory |-> x \in d] :
        x \in {y \in d \cup DOMAIN f : Len(y) > 0 /\ dirname(y) = path}}

\* the orders in which a directory may list its entries
Orderings(S) ==
    {s \in [1..Cardinality(S) -> S] : \A i, j \in 1..Cardinality(S) : i # j => s[i] # s[j]}

\* entries.filter(entry => entry.isDirectory()) (24)
isDirectoryEntry(entry) == entry.isDirectory

\* entries.map(entry => entry.name) (25)
namesOf(entries) == [i \in DOMAIN entries |-> entries[i].name]

\* getTemplateCategories returning the name of every entry, plain files included
getTemplateCategories_unfiltered(d, entries) ==
    IF rulesPath \in d
    THEN fulfilled(namesOf(entries))
    ELSE rejected("Failed to read rule categories")

\* getTemplateCategories (20-29) when no request fails, entries being what readdir listed:
\* the names of the directories among them, in the order of the listing; a missing rulesPath
\* makes readdir throw, which is rethrown at 27
getTemplateCategories(d, entries) ==
    IF rulesPath \in d
    THEN fulfilled(namesOf(SelectSeq(entries, isDirectoryEntry)))
    ELSE rejected("Failed to read rule categories")

\* getTemplatesInCategory giving an empty list when the template file is missing
getTemplatesInCategory_emptyOnMissing(f, category) ==
    IF templateFile(category) \in DOMAIN f
    THEN fulfilled(<<templateOf(category, f[templateFile(category)])>>)
    ELSE fulfilled(<<>>)

\* getTemplatesInCategory (31-46) when no request fails: a missing file makes readFile throw,
\* which is rethrown at 44
getTemplatesInCategory(f, category) ==
    IF templateFile(category) \in DOMAIN f
    THEN fulfilled(<<templateOf(category, f[templateFile(category)])>>)
    ELSE rejected("Failed to read templates in category")

\* getTemplateCategories creating the rules directory when it is missing
GetTemplateCategories_creating ==
    /\ calls < MaxCalls
    /\ calls' = calls + 1
    /\ \/ /\ NoFault
          /\ dirs' = dirs \cup {rulesPath}
          /\ \E entries \in Orderings(readdir(fs, dirs \cup {rulesPath}, rulesPath)) :
                probe' = [op |-> "getTemplateCategories",
                          result |-> getTemplateCategories(dirs \cup {rulesPath}, entries)]
       \/ /\ Fault
          /\ dirs' = dirs
          /\ probe' = [op |-> "getTemplateCategories",
                       result |-> rejected("Failed to read rule categories")]
    /\ UNCHANGED <<fs, workspaceFolders, clock, pc, template, targetUri, backupUri,
                   newBackupUri, outcome, log, before, lastCall, replaced, argUri, raced>>

\* a caller awaits getTemplateCategories(); readdir may fail for a reason of its own
GetTemplateCategories ==
    /\ calls < MaxCalls
    /\ calls' = calls + 1
    /\ \/ /\ NoFault
          /\ \E entries \in Orderings(readdir(fs, dirs, rulesPath)) :
                probe' = [op |-> "getTemplateCategories",
                          result |-> getTemplateCategories(dirs, entries)]
       \/ /\ Fault
          /\ probe' = [op |-> "getTemplateCategories",
                       result |-> rejected("Failed to read rule categories")]
    /\ UNCHANGED <<fs, dirs, workspaceFolders, clock, pc, template, targetUri, backupUri,
                   newBackupUri, outcome, log, before, lastCall, replaced, argUri, raced>>

\* a caller awaits getTemplatesInCategory(category); readFile may fail for a reason of its own
GetTemplatesInCategory ==
    /\ calls < MaxCalls
    /\ calls' = calls + 1
    /\ \E category \in CategoryArgs :
        \/ /\ NoFault
           /\ probe' = [op |-> "getTemplatesInCategory", category |-> category,
                        failed |-> FALSE, result |-> getTemplatesInCategory(fs, category)]
        \/ /\ Fault
           /\ probe' = [op |-> "getTemplatesInCategory", category |-> category,
                        failed |-> TRUE, result |-> rejected("Failed to read templates in category")]
    /\ UNCHANGED <<fs, dirs, workspaceFolders, clock, pc, template, targetUri, backupUri,
                   newBackupUri, outcome, log, before, lastCall, replaced, argUri, raced>>

\* a caller awaits createTemplatePreview(template) (48-54): an untitled document with the
\* content is opened and shown; a throw of openTextDocument or showTextDocument rejects
CreateTemplatePreview ==
    /\ calls < MaxCalls
    /\ calls' = calls + 1
    /\ \E category \in Categories, content \in LibraryContents :
        \/ /\ NoFault
           /\ probe' = [op |-> "createTemplatePreview", template |-> templateOf(category, content),
                        result |-> fulfilled(Undefined)]
        \/ /\ Fault
           /\ probe' = [op |-> "createTemplatePreview", template |-> templateOf(category, content),
                        result |-> rejected("preview")]
    /\ UNCHANGED <<fs, dirs, workspaceFolders, clock, pc, template, targetUri, backupUri,
                   newBackupUri, outcome, log, before, lastCall, replaced, argUri, raced>>

\* the target document and its backups, as the read operations find them
DocumentFiles ==
    LET target == joinPath(WorkspaceRoot, ".cursorrules")
        sibling == siblingBackupUri(target, timestampOf(0))
    IN {target, sibling, movedBackupUri(sibling, WorkspaceRoot)}

\* a template library: the rules directory may be missing, a category directory may be
\* missing, a template file may be missing, and the rules directory may hold a plain file
InitRead ==
    /\ \E present \in SUBSET Categories, filed \in SUBSET Categories, readme \in BOOLEAN,
          library \in [Categories -> LibraryContents], rules \in BOOLEAN :
        /\ filed \subseteq present
        /\ rules \/ (present = {} /\ ~readme)
        /\ \A c \in Categories \ filed : library[c] = <<>>
        /\ dirs = {WorkspaceRoot, OtherRoot, backupDirOf(WorkspaceRoot)}
                    \cup (IF rules THEN {rulesPath} ELSE {})
                    \cup {joinPath(rulesPath, c) : c \in present}
        /\ fs = [u \in DocumentFiles \cup {templateFile(c) : c \in filed}
                        \cup (IF readme THEN {joinPath(rulesPath, "README.md")} ELSE {}) |->
                    IF u \in DocumentFiles THEN <<"A">>
                    ELSE IF u = joinPath(rulesPath, "README.md") THEN <<"r">>
                    ELSE library[CHOOSE c \in filed : templateFile(c) = u]]
    /\ workspaceFolders = <<WorkspaceRoot>>
    /\ clock = 0
    /\ calls = 0
    /\ faults = 0
    /\ pc = [p \in Procs |-> "idle"]
    /\ template = [p \in Procs |-> ""]
    /\ targetUri = [p \in Procs |-> NoUri]
    /\ backupUri = [p \in Procs |-> NoUri]
    /\ newBackupUri = [p \in Procs |-> NoUri]
    /\ outcome = [p \in Procs |-> "none"]
    /\ log = [p \in Procs |-> <<>>]
    /\ before = [p \in Procs |-> [fs |-> <<>>, dirs |-> {}]]
    /\ lastCall = 0
    /\ replaced = {}
    /\ argUri = [p \in Procs |-> NoUri]
    /\ probe = NoProbe
    /\ raced = {}

NextRead ==
    \/ GetTemplateCategories
    \/ GetTemplatesInCategory
    \/ CreateTemplatePreview

SpecRead == InitRead /\ [][NextRead]_vars

(* ------------------------- order of the steps -------------------------- *)

\* the place of an await in the text of saveTemplateToWorkspace, the body of
\* moveToBackupDirectory (74-91) standing where it is called (134)
StepOrder ==
    <<"resolve", "stat", "prompt", "copy", "workspace", "ensureStat", "createDirectory",
      "moveCopy", "moveDelete", "write", "open", "show">>

Rank(step) == CHOOSE i \in DOMAIN StepOrder : StepOrder[i] = step

(* ----------------------- vocabulary of the claims ----------------------- *)

\* the call has completed the step with the result
Did(p, step, result) == \E i \in DOMAIN log[p] : log[p][i] = Event(step, result)

\* the call has completed the step with one of the results
DidAny(p, step, results) == \E i \in DOMAIN log[p] : log[p][i].step = step /\ log[p][i].result \in results

\* the call has completed the step, whatever the result
Tried(p, step) == \E i \in DOMAIN log[p] : log[p][i].step = step

\* the call is between its start and its settlement
Running(p) == pc[p] \notin {"idle", "done"}

\* the call is the latest one started: under SpecSeq no other call has acted since it started
Latest(p) == p = lastCall /\ targetUri[p] # NoUri

\* the target held a document when the call started
HadTarget(p) == targetUri[p] \in DOMAIN before[p].fs

\* that document
Original(p) == before[p].fs[targetUri[p]]

\* the file names backups can have
BackupFileNames == {backupFileName(timestampOf(t)) : t \in 0..MaxClock}

\* the backup files: next to a target or in the backup directory
BackupFiles == {u \in DOMAIN fs : fileNameOf(u) \in BackupFileNames}

\* some backup file holds the content c
BackedUp(c) == \E u \in BackupFiles : fs[u] = c

\* the answer to the prompt was not 'Replace'
Declined(p) == DidAny(p, "prompt", {"Cancel", Undefined})

\* the steps of the backup of a call
BackupSteps == {"copy", "workspace", "ensureStat", "createDirectory", "moveCopy", "moveDelete"}

\* the backup copy of the call did not take place
CopyFailed(p) == DidAny(p, "copy", {"error", "refused"})

\* the move of the sibling backup into the backup directory failed
MoveFailed(p) ==
    \/ Did(p, "workspace", "noFolder")
    \/ Did(p, "createDirectory", "error")
    \/ DidAny(p, "moveCopy", {"error", "refused"})
    \/ DidAny(p, "moveDelete", {"error", "notFound"})

\* the backup of the call is over: it failed, or its last step has been taken
BackupEnded(p) == CopyFailed(p) \/ MoveFailed(p) \/ Did(p, "moveDelete", "ok")

\* the call has issued its write of the target
WriteIssued(p) == pc[p] = "write" \/ Tried(p, "write")

(* ------------------------------- claims -------------------------------- *)

\* C1: during and after one save onto an existing target holding D, the target still holds D
\* or some backup file (next to the target or in the backup directory) holds D.
C1_NoSilentLoss ==
    \A p \in Procs : (Latest(p) /\ HadTarget(p)) =>
        \/ (exists(targetUri[p]) /\ fs[targetUri[p]] = Original(p))
        \/ BackedUp(Original(p))

\* C2: when the backup copy fails the save aborts without writing and the target is
\* unchanged; the write is issued only when the existence check found no target or the backup
\* copy was made.
C2_BackupFailureAborts ==
    \A p \in Procs : Latest(p) =>
        /\ CopyFailed(p) =>
              /\ ~WriteIssued(p)
              /\ exists(targetUri[p]) /\ fs[targetUri[p]] = Original(p)
        /\ WriteIssued(p) => (Did(p, "stat", "notFound") \/ Did(p, "copy", "ok"))

\* C3: a save whose prompt is answered with anything but 'Replace' is over, has raised no
\* error, and has left every file and directory as it was when the call started.
C3_CancelIsNoOp ==
    \A p \in Procs : (Latest(p) /\ Declined(p)) =>
        /\ pc[p] = "done"
        /\ outcome[p] = "resolved"
        /\ fs = before[p].fs
        /\ dirs = before[p].dirs

\* a declined save in a workspace that already holds a backup file
C3_Witness ==
    \E p \in Procs : Latest(p) /\ Declined(p) /\ pc[p] = "done" /\ BackupFiles # {}

\* C4: no two saves on the same target are both between their existence check and their
\* terminal outcome.
C4_PerPathMutualExclusion ==
    \A p, q \in Procs :
        (p # q /\ Running(p) /\ Running(q) /\ Tried(p, "stat") /\ Tried(q, "stat"))
            => targetUri[p] # targetUri[q]

\* C5: in a save that was answered 'Replace', the write of the target is issued only when
\* the backup (copy, ensure directory, move) has been started and is over, and no step of
\* the backup comes after the write.
C5_BackupPrecedesWrite ==
    \A p \in Procs : (Confirmed(p) /\ WriteIssued(p)) =>
        /\ Tried(p, "copy")
        /\ BackupEnded(p)
        /\ \A i, j \in DOMAIN log[p] :
              (log[p][i].step \in BackupSteps /\ log[p][j].step = "write") => i < j

\* a confirmed save that has written the target after its move into the backup directory
C5_Witness ==
    \E p \in Procs : Confirmed(p) /\ Did(p, "moveDelete", "ok") /\ Did(p, "write", "ok")

\* C6: the copy of the target to the sibling backup name never overwrites: when a file
\* already has that name, the copy fails and the file keeps its content.
C6_CopyNeverOverwrites ==
    [][\A p \in Procs :
          (pc[p] = "copy" /\ pc'[p] # "copy" /\ backupUri[p] \in DOMAIN fs) =>
              /\ backupUri[p] \in DOMAIN fs'
              /\ fs'[backupUri[p]] = fs[backupUri[p]]
              /\ log'[p][Len(log[p]) + 1].result # "ok"]_vars

\* C7: after any sequence of non-overlapping confirmed saves (no call of the host failing),
\* every content a confirmed save has overwritten in a target is held by some backup file.
C7_BackupsNeverLost ==
    faults = 0 => \A c \in replaced : BackedUp(c)

\* the backup files that have appeared since the call started
NewBackups(p) == {u \in BackupFiles : u \notin DOMAIN before[p].fs}

\* C8: when the backup of a confirmed save is over, exactly one new backup file holds the
\* content the target had, in the backup directory or next to the target.
C8_ExactlyOneBackup ==
    \A p \in Procs : (Latest(p) /\ Confirmed(p) /\ pc[p] = "write") =>
        Cardinality({u \in NewBackups(p) : fs[u] = Original(p)}) = 1

\* C9: when the move into the backup directory fails, the sibling backup stays in place with
\* the content of the target, the save goes on to write the target, and the save fails only
\* if the write or the opening of the document fails.
C9_DegradedPath ==
    \A p \in Procs : (Latest(p) /\ MoveFailed(p)) =>
        /\ exists(backupUri[p]) /\ fs[backupUri[p]] = Original(p)
        /\ WriteIssued(p)
        /\ outcome[p] = "rejected" =>
              (Did(p, "write", "error") \/ Did(p, "open", "error") \/ Did(p, "show", "error"))

\* a save that ended well although the name was taken in the backup directory
C9_Witness ==
    \E p \in Procs :
        /\ Latest(p) /\ Did(p, "moveCopy", "refused")
        /\ pc[p] = "done" /\ outcome[p] = "resolved"
        /\ fs[targetUri[p]] = convertTemplateContent(template[p])

\* a step of the save has failed (a missing target at the existence check is no failure)
StepFailed(p) ==
    \/ Did(p, "stat", "error")
    \/ Did(p, "prompt", "error")
    \/ CopyFailed(p)
    \/ MoveFailed(p)
    \/ Did(p, "write", "error")

\* C10: a save in which a step has failed reports a failure to its caller, and the only
\* save that ends without a write and without an error is a declined one.
C10_NoErrorSwallowed ==
    \A p \in Procs : pc[p] = "done" =>
        /\ StepFailed(p) => outcome[p] = "rejected"
        /\ (outcome[p] = "resolved" /\ ~Did(p, "write", "ok")) => Declined(p)

\* C11: a write onto a target that holds a document at the moment of the write happens only
\* in a call that was answered 'Replace' before.
C11_ConfirmedBeforeDestructiveWrite ==
    [][\A p \in Procs :
          (pc[p] = "write" /\ pc'[p] = "open" /\ exists(targetUri[p])) => Confirmed(p)]_vars

\* C12: a save onto a target that holds no file shows no prompt, takes no step of the backup,
\* creates no backup file and no directory, leaves every other file alone, and once its write
\* has returned the target holds convertTemplateContent(template.content); it ends without
\* that content only when the write itself failed.
C12_SaveOntoAbsentTarget ==
    \A p \in Procs : (Latest(p) /\ ~HadTarget(p)) =>
        /\ ~Tried(p, "prompt")
        /\ \A step \in BackupSteps : ~Tried(p, step)
        /\ NewBackups(p) = {}
        /\ dirs = before[p].dirs
        /\ DOMAIN fs \subseteq DOMAIN before[p].fs \cup {targetUri[p]}
        /\ \A u \in DOMAIN before[p].fs : exists(u) /\ fs[u] = before[p].fs[u]
        /\ Did(p, "write", "ok") =>
              (exists(targetUri[p]) /\ fs[targetUri[p]] = convertTemplateContent(template[p]))
        /\ pc[p] = "done" => (Did(p, "write", "ok") \/ Did(p, "write", "error"))

\* a save that created the target next to files that were there before
C12_Witness ==
    \E p \in Procs :
        /\ Latest(p) /\ ~HadTarget(p) /\ pc[p] = "done" /\ outcome[p] = "resolved"
        /\ fs[targetUri[p]] = convertTemplateContent(template[p])
        /\ DOMAIN before[p].fs # {}

\* an I/O request or the prompt of the call has failed
IOFailed(p) ==
    \/ Did(p, "stat", "error")
    \/ Did(p, "prompt", "error")
    \/ CopyFailed(p)
    \/ Did(p, "createDirectory", "error")
    \/ DidAny(p, "moveCopy", {"error", "refused"})
    \/ DidAny(p, "moveDelete", {"error", "notFound"})
    \/ Did(p, "write", "error")

\* the call is a confirmed replacement that ended well: the target held a document, the
\* answer was 'Replace', all I/O succeeded and the sibling backup name was free
ReplacedCleanly(p) ==
    /\ Latest(p) /\ HadTarget(p) /\ Confirmed(p)
    /\ pc[p] = "done" /\ outcome[p] = "resolved"
    /\ ~IOFailed(p)
    /\ backupUri[p] \notin DOMAIN before[p].fs

\* C13: a confirmed replacement in which all I/O succeeded and no name was taken ends with
\* exactly one new file in the backup directory, named as the sibling backup was and holding
\* the old content, with no sibling backup file left next to the target, and with the target
\* holding convertTemplateContent(template.content).
C13_ReplaceSuccessPath ==
    \A p \in Procs : ReplacedCleanly(p) =>
        LET created == DOMAIN fs \ DOMAIN before[p].fs IN
        /\ ~exists(backupUri[p])
        /\ \E u \in created :
              /\ created = {u}
              /\ dirname(u)[Len(dirname(u))] = ".cursorrules-backup"
              /\ fileNameOf(u) = fileNameOf(backupUri[p])
              /\ fs[u] = Original(p)
        /\ fs[targetUri[p]] = convertTemplateContent(template[p])

\* the latest call was made with no target while no workspace folder was open
NoProjectRoot(p) ==
    /\ p = lastCall /\ pc[p] # "idle"
    /\ argUri[p] = NoUri
    /\ workspaceFolders = NoFolders

\* C14: a save called with no target while no workspace folder is open is rejected at once:
\* no prompt is shown, no file-system request is issued, and files and directories are as
\* they were when it was called.
C14_NoProjectRootFails ==
    \A p \in Procs : NoProjectRoot(p) =>
        /\ pc[p] = "done" /\ outcome[p] = "rejected"
        /\ log[p] = <<Event("resolve", "noFolder")>>
        /\ fs = before[p].fs
        /\ dirs = before[p].dirs

\* such a save has been rejected while documents were there to lose
C14_Witness ==
    \E p \in Procs :
        /\ NoProjectRoot(p) /\ outcome[p] = "rejected"
        /\ DOMAIN fs = ExplicitTargets

\* the call has returned to its caller without an error
Returned(p) == pc[p] = "done" /\ outcome[p] = "resolved"

\* the value it returned
ReturnedValue(p) == returnValue(log[p][Len(log[p])].step)

\* C15: the value a save returns tells a committed save from a declined one: a call that
\* wrote its target and a call that was declined never return the same value.
C15_OutcomeTellsSavedFromCancelled ==
    \A p, q \in Procs :
        (/\ Returned(p) /\ Did(p, "write", "ok")
         /\ Returned(q) /\ Declined(q))
        => ReturnedValue(p) # ReturnedValue(q)

\* the workspace-folder settings the claim ranges over for a target: none, or a folder other
\* than the directory of the target
AmbientSettings(target) ==
    {NoFolders} \cup {<<root>> : root \in {WorkspaceRoot, OtherRoot} \ {dirname(target)}}

\* the answer the call got to its prompt (Undefined when none was shown)
AnswerOf(p) ==
    IF Tried(p, "prompt")
    THEN (CHOOSE e \in {log[p][i] : i \in DOMAIN log[p]} : e.step = "prompt").result
    ELSE Undefined

\* the clock reading the call named its backup from (0 when it made none)
ReadingOf(p) ==
    IF backupUri[p] = NoUri
    THEN 0
    ELSE CHOOSE t \in 0..MaxClock : backupUri[p] = siblingBackupUri(targetUri[p], timestampOf(t))

\* the call was made with a target, ran alone with all I/O succeeding, and is over
ExplicitSaveOver(p) ==
    /\ Latest(p) /\ argUri[p] # NoUri
    /\ Returned(p)
    /\ ~IOFailed(p)
    /\ workspaceFolders \in AmbientSettings(targetUri[p])

\* C16: a save with an explicit target ends with the same files whatever the workspace
\* folders are: the files it leaves are those the same call would leave under every other
\* setting (no folder, or a folder other than the directory of the target).
C16_ExplicitTargetIgnoresWorkspace ==
    \A p \in Procs : ExplicitSaveOver(p) =>
        \A folders \in AmbientSettings(targetUri[p]) :
            fs = saveResult(before[p].fs, folders, targetUri[p], template[p],
                            AnswerOf(p), ReadingOf(p))

\* the probe holds the naming of the backups of two saves
Named == probe.op = "backupNames"

\* C17: the sibling backup is <target's file name>.<token>.backup in the directory of the
\* target, so two different targets in one directory, backed up with the same token, get
\* different sibling backups.
C17_SiblingNamedFromTarget ==
    Named =>
        /\ \A n \in {probe.first, probe.second} :
              n.backupUri = joinPath(dirname(n.target),
                                     fileNameOf(n.target) \o "." \o n.timestamp \o ".backup")
        /\ (/\ probe.first.target # probe.second.target
            /\ dirname(probe.first.target) = dirname(probe.second.target)
            /\ probe.first.timestamp = probe.second.timestamp)
           => probe.first.backupUri # probe.second.backupUri

\* C18: backup names do not collide: the two names a save gives its backup (next to the
\* target, in the backup directory) are different places, and two saves whose clock
\* readings differ by a millisecond or more give their backups different file names.
C18_NamesCollisionFree ==
    Named =>
        /\ \A n \in {probe.first, probe.second} : n.backupUri # n.newBackupUri
        /\ probe.first.now # probe.second.now =>
              /\ fileNameOf(probe.first.backupUri) # fileNameOf(probe.second.backupUri)
              /\ fileNameOf(probe.first.newBackupUri) # fileNameOf(probe.second.newBackupUri)

\* two saves of one target, one millisecond apart across a new second
C18_Witness ==
    /\ Named
    /\ probe.first.target = probe.second.target
    /\ probe.first.now = 999 /\ probe.second.now = 1000
    /\ probe.first.timestamp = "2024-01-01T00-00-00-999Z"
    /\ probe.second.timestamp = "2024-01-01T00-00-01-000Z"

\* C19: the steps of a call complete in the order existence check, confirmation, backup
\* copy, move into the backup directory, write, opening: each completed step comes later in
\* that order than every step completed before it, and the step the call is waiting for
\* comes later than all of them.
C19_StepsStrictlySequential ==
    \A p \in Procs :
        /\ \A i, j \in DOMAIN log[p] : i < j => Rank(log[p][i].step) < Rank(log[p][j].step)
        /\ Running(p) => \A i \in DOMAIN log[p] : Rank(log[p][i].step) < Rank(pc[p])

\* a call has gone through every step, the creation of the backup directory included
C19_Witness ==
    \E p \in Procs :
        /\ Did(p, "stat", "ok") /\ Did(p, "prompt", "Replace") /\ Did(p, "copy", "ok")
        /\ Did(p, "createDirectory", "ok") /\ Did(p, "moveCopy", "ok")
        /\ Did(p, "moveDelete", "ok") /\ Did(p, "write", "ok")
        /\ pc[p] = "done"

\* C20: convertTemplateContent returns its argument, so applying it twice gives what
\* applying it once gives, for every content it is applied to.
C20_ConvertIsIdentity ==
    probe.op = "convertTemplateContent" =>
        /\ probe.once = probe.content
        /\ probe.twice = probe.once

\* the conversion has been applied, once and twice, to a content that ends with a line feed
C20_Witness ==
    /\ probe.op = "convertTemplateContent"
    /\ probe.content = "# Rules\n"
    /\ probe.twice = "# Rules\n"

\* the probe holds the validation of a document
Validated == probe.op = "validate"

\* the rules in the rules lists of the languages of a document
RulesOf(doc) ==
    IF has(doc, "languages") /\ isType(doc.fields["languages"], "object")
    THEN UNION { LET config == doc.fields["languages"].fields[name] IN
                 IF has(config, "rules") /\ isType(config.fields["rules"], "array")
                 THEN {config.fields["rules"].items[i] : i \in DOMAIN config.fields["rules"].items}
                 ELSE {} : name \in DOMAIN doc.fields["languages"].fields }
    ELSE {}

\* the level of the rule is one of error, warning, info, hint
LevelInSet(rule) ==
    /\ isType(rule.fields["level"], "string")
    /\ rule.fields["level"].value \in { <<"e", "r", "r", "o", "r">>,
                                        <<"w", "a", "r", "n", "i", "n", "g">>,
                                        <<"i", "n", "f", "o">>, <<"h", "i", "n", "t">> }

\* the rule lacks id, level or description, or its level is outside the set, or it has a fix
\* object without replace
Defective(rule) ==
    \/ ~has(rule, "id") \/ ~has(rule, "level") \/ ~has(rule, "description")
    \/ has(rule, "level") /\ ~LevelInSet(rule)
    \/ has(rule, "fix") /\ isType(rule.fields["fix"], "object") /\ ~has(rule.fields["fix"], "replace")

\* C22: a document with a defective rule in the rules list of any of its languages fails
\* validation.
C22_DefectiveRuleRejected ==
    Validated => ((\E rule \in RulesOf(probe.doc) : Defective(rule)) => ~probe.valid)

\* a document whose only defect is a missing description in the second rule of its second
\* language has been validated
C22_Witness ==
    /\ Validated
    /\ ~probe.valid
    /\ has(probe.doc, "version") /\ probe.doc.fields["version"] = JString(<<"1", ".", "0", ".", "0">>)
    /\ has(probe.doc, "languages") /\ has(probe.doc.fields["languages"], "py")
    /\ \E rule \in RulesOf(probe.doc) :
          /\ ~has(rule, "description")
          /\ has(rule, "id") /\ has(rule, "level") /\ LevelInSet(rule)
          /\ ~has(rule, "fix") /\ ~has(rule, "pattern") /\ ~has(rule, "disabled")
          /\ isType(rule.fields["id"], "string")

\* s is digits.digits.digits: two dots, digits everywhere else, and a digit before and
\* after each dot
ThreeNumbers(s) ==
    LET dots == {i \in DOMAIN s : s[i] = "."} IN
    /\ Cardinality(dots) = 2
    /\ \A i \in DOMAIN s \ dots : IsDigit(s[i])
    /\ \A i \in dots : i - 1 \in DOMAIN s \ dots /\ i + 1 \in DOMAIN s \ dots

\* the document is an object with a version string digits.digits.digits and a languages
\* object each of whose values has a rules array of valid rules
Accepted(doc) ==
    /\ isType(doc, "object")
    /\ has(doc, "version")
    /\ isType(doc.fields["version"], "string")
    /\ ThreeNumbers(doc.fields["version"].value)
    /\ has(doc, "languages")
    /\ isType(doc.fields["languages"], "object")
    /\ \A name \in DOMAIN doc.fields["languages"].fields :
          LET config == doc.fields["languages"].fields[name] IN
          /\ has(config, "rules")
          /\ isType(config.fields["rules"], "array")
          /\ \A i \in DOMAIN config.fields["rules"].items :
                validRule(config.fields["rules"].items[i])

\* C23: a document passes validation exactly when it is an object with a version string
\* digits.digits.digits and a languages object each of whose values has a rules array of
\* valid rules; one without version or languages, or with the version 1.0, fails.
C23_TopLevelAcceptance ==
    Validated =>
        /\ probe.valid <=> Accepted(probe.doc)
        /\ (~has(probe.doc, "version") \/ ~has(probe.doc, "languages")) => ~probe.valid
        /\ (has(probe.doc, "version") /\ probe.doc.fields["version"] = JString(<<"1", ".", "0">>))
              => ~probe.valid

\* the example document {"version":"1.0.0","languages":{"ts":{"rules":[{"id":"r1",
\* "level":"warning","description":"x"}]}}} has been validated and passes
C23_Witness ==
    /\ Validated
    /\ probe.valid
    /\ probe.doc = ExampleDocument

\* C21: a save writes the content of its template whether or not the content conforms to the
\* schema: once the write is done the target holds template.content, a save is rejected only
\* when the workspace folder is missing or the write or the opening of the document fails,
\* and a save that returns without having written was declined.
C21_ValidationNeverBlocks ==
    \A p \in Procs : Latest(p) =>
        /\ Did(p, "write", "ok") => (exists(targetUri[p]) /\ fs[targetUri[p]] = template[p])
        /\ (pc[p] = "done" /\ outcome[p] = "rejected") =>
              \/ Did(p, "write", "error")
              \/ Did(p, "open", "error")
              \/ Did(p, "show", "error")
        /\ (pc[p] = "done" /\ outcome[p] = "resolved" /\ ~Did(p, "write", "ok")) => Declined(p)

\* a content that does not conform has been written over a document, and the save returned
C21_Witness ==
    \E p \in Procs :
        /\ Latest(p) /\ HadTarget(p)
        /\ ~conforms(template[p])
        /\ Returned(p)
        /\ fs[targetUri[p]] = template[p]

\* the probe holds the result of getTemplatesInCategory(category)
Listed == probe.op = "getTemplatesInCategory"

\* the category exists: its directory and its template file are there
CategoryExists(category) ==
    /\ joinPath(rulesPath, category) \in dirs
    /\ templateFile(category) \in DOMAIN fs

\* C24: getTemplatesInCategory on an existing category, when the read does not fail, returns
\* exactly one template, whose id, name and category are the category name and whose content
\* is the content of the template file of the category.
C24_OneTemplatePerCategory ==
    (Listed /\ CategoryExists(probe.category) /\ ~probe.failed) =>
        /\ probe.result.status = "fulfilled"
        /\ Len(probe.result.value) = 1
        /\ probe.result.value[1].id = probe.category
        /\ probe.result.value[1].name = probe.category
        /\ probe.result.value[1].category = probe.category
        /\ probe.result.value[1].content = fs[templateFile(probe.category)]

\* the template of a category whose file starts and ends with white space has been returned
C24_Witness ==
    /\ Listed /\ CategoryExists(probe.category)
    /\ probe.result.status = "fulfilled"
    /\ probe.result.value[1].content = <<" ", "#", " ", "A", " ", "\n">>

\* the first line of the content that is not empty (nothing but white space counts as
\* empty), without its surrounding white space; the empty string when there is none
FirstNonEmptyLine(content) ==
    LET lines == splitLines(content)
        full == {i \in DOMAIN lines : trim(lines[i]) # <<>>}
    IN IF full = {} THEN <<>> ELSE trim(lines[CHOOSE i \in full : \A j \in full : i <= j])

\* C25: the description of a returned template is the first non-empty line of the content,
\* also when the content starts with empty lines.
C25_DescriptionIsFirstNonEmptyLine ==
    (Listed /\ probe.result.status = "fulfilled") =>
        \A i \in DOMAIN probe.result.value :
            probe.result.value[i].description = FirstNonEmptyLine(probe.result.value[i].content)

\* C26: getTemplatesInCategory is rejected when the directory of the category or its template
\* file is missing, and never returns a list that is empty or has more than the one
\* template; getTemplateCategories is rejected when the rules directory is missing.
C26_MissingLibraryFails ==
    /\ Listed =>
          /\ ~CategoryExists(probe.category) => probe.result.status = "rejected"
          /\ probe.result.status = "fulfilled" => Len(probe.result.value) = 1
    /\ (probe.op = "getTemplateCategories" /\ rulesPath \notin dirs) =>
          probe.result.status = "rejected"

\* the template of a category whose directory is there and whose file is not has been asked
\* for, with no failure of the read itself
C26_Witness ==
    /\ Listed
    /\ ~probe.failed
    /\ joinPath(rulesPath, probe.category) \in dirs
    /\ templateFile(probe.category) \notin DOMAIN fs
    /\ probe.result.status = "rejected"

\* C27: getTemplateCategories, getTemplatesInCategory and createTemplatePreview leave every
\* file and every directory as they are, whether they are fulfilled or rejected.
C27_ReadsAreReadOnly ==
    [][fs' = fs /\ dirs' = dirs]_vars

\* a read has been rejected after another read, with the library, the target document and
\* its backups in place
C27_Witness ==
    /\ calls = 2
    /\ probe.op = "getTemplateCategories"
    /\ probe.result.status = "rejected"
    /\ rulesPath \notin dirs
    /\ DocumentFiles \subseteq DOMAIN fs

\* the positions of a call inside its backup: the copy next to the target and the steps of
\* the move into the backup directory
BackupPositions == {"copy", "ensureStat", "createDirectory", "moveCopy", "moveDelete"}

\* C29: no step of the backup of a call (the copy next to the target, the look-up and the
\* creation of the backup directory, the copy into it, the deletion of the sibling), whether
\* it succeeds or fails, changes the existence or the content of the target.
C29_BackupLeavesTarget ==
    [][\A p \in Procs :
          (pc[p] \in BackupPositions /\ pc'[p] # pc[p]) =>
              /\ exists(targetUri[p]) <=> targetUri[p] \in DOMAIN fs'
              /\ exists(targetUri[p]) => fs'[targetUri[p]] = fs[targetUri[p]]]_vars

\* the backup of a call is over, its sibling deleted, and the target is as it was
C29_Witness ==
    \E p \in Procs :
        /\ Latest(p) /\ HadTarget(p)
        /\ Did(p, "moveDelete", "ok") /\ pc[p] = "write"
        /\ ~exists(backupUri[p])
        /\ fs[targetUri[p]] = Original(p)

\* the backup directories: of the workspace folder and of the other root
BackupDirs == {backupDirOf(WorkspaceRoot), backupDirOf(OtherRoot)}

\* C30: whatever saves run and however they interleave, a file that is in a backup directory
\* stays there with its content.
C30_BackupDirAppendOnly ==
    [][\A u \in DOMAIN fs :
          dirname(u) \in BackupDirs => (u \in DOMAIN fs' /\ fs'[u] = fs[u])]_vars

\* a backup is in the backup directory and a later save, whose backup got the same name with
\* another content, was refused the copy into the directory
C30_Witness ==
    \E p \in Procs :
        /\ Did(p, "moveCopy", "refused")
        /\ exists(newBackupUri[p]) /\ exists(backupUri[p])
        /\ fs[newBackupUri[p]] # fs[backupUri[p]]

\* two calls on one target awaited their backup copy at the same time (both had passed the
\* existence check and the confirmation before either backed up) and both have returned,
\* with every request of both succeeding and with different templates
RacedAndReturned(p, q) ==
    /\ p # q /\ {p, q} \in raced
    /\ targetUri[p] = targetUri[q]
    /\ Returned(p) /\ Returned(q)
    /\ ~IOFailed(p) /\ ~IOFailed(q)
    /\ template[p] # template[q]

\* the content was written by a save, has been overwritten by a confirmed write, and is
\* held neither by the target nor by any backup file
LostUnrecorded(c, target) ==
    /\ c \in replaced
    /\ fs[target] # c
    /\ ~BackedUp(c)

\* C28: two concurrent saves that both passed the existence check and the confirmation
\* before either backed up both go on to write with no further check: the content one of
\* them wrote is overwritten by the other, and it is held by a backup file only if a backup
\* copy was made after it was written, that is unless every backup of the two calls holds
\* the content the target had before.
C28_RaceLosesFirstWrite ==
    \A p, q \in Procs : RacedAndReturned(p, q) =>
        /\ Did(p, "write", "ok") /\ Did(q, "write", "ok")
        /\ \E c \in {template[p], template[q]} :
              /\ c \in replaced
              /\ fs[targetUri[p]] # c
              /\ (\A u \in NewBackups(p) \cup NewBackups(q) : fs[u] \notin {template[p], template[q]})
                    => LostUnrecorded(c, targetUri[p])

\* the race has happened and the run has ended with the content of the first write lost
C28_Witness ==
    \E p, q \in Procs :
        /\ RacedAndReturned(p, q)
        /\ HadTarget(p) /\ HadTarget(q)
        /\ Original(p) = Original(q)
        /\ \E c \in {template[p], template[q]} : LostUnrecorded(c, targetUri[p])

\* the sibling backup of the call holds the content the target had
SiblingHolds(p) == exists(backupUri[p]) /\ fs[backupUri[p]] = Original(p)

\* the copy of the call in the backup directory holds the content the target had
MovedHolds(p) ==
    /\ Did(p, "moveCopy", "ok")
    /\ exists(newBackupUri[p]) /\ fs[newBackupUri[p]] = Original(p)

\* C31: from the completion of the backup copy to the end of the save (and as long as no
\* other save runs), the sibling backup or its copy in the backup directory holds the
\* content the target had, and the sibling is gone only when the copy into the backup
\* directory has succeeded.
C31_DeleteAfterCopy ==
    \A p \in Procs : (Latest(p) /\ Did(p, "copy", "ok")) =>
        /\ SiblingHolds(p) \/ MovedHolds(p)
        /\ ~exists(backupUri[p]) => (MovedHolds(p) /\ Did(p, "moveDelete", "ok"))
        /\ Did(p, "moveDelete", "ok") => Did(p, "moveCopy", "ok")

\* the copy into the backup directory was refused (the name was taken) and the save has
\* ended with the sibling backup still holding the content the target had
C31_Witness ==
    \E p \in Procs :
        /\ Latest(p) /\ Did(p, "copy", "ok")
        /\ Did(p, "moveCopy", "refused")
        /\ pc[p] = "done"
        /\ SiblingHolds(p)
        /\ fs[targetUri[p]] # Original(p)

\* the call returns from ensureBackupDirectory in this step
EnsureReturns(p) == pc[p] \in {"ensureStat", "createDirectory"} /\ pc'[p] = "moveCopy"

\* C32: when ensureBackupDirectory returns, <workspace folder>/.cursorrules-backup is a
\* directory; no step of it changes a file; it adds no other directory; and when the
\* directory was there already it changes nothing, so that ensuring twice leaves what
\* ensuring once leaves.
C32_EnsureIdempotent ==
    [][\A p \in Procs :
          LET backupDirUri == backupDirOf(workspaceFolders[1]) IN
          /\ EnsureReturns(p) => backupDirUri \in dirs'
          /\ (pc[p] \in {"ensureStat", "createDirectory"} /\ pc'[p] # pc[p]) =>
                /\ fs' = fs
                /\ dirs' \in {dirs, dirs \cup {backupDirUri}}
                /\ backupDirUri \in dirs => dirs' = dirs]_vars

\* a save that found the backup directory, with a backup in it, left by the save before
C32_Witness ==
    \E p \in Procs :
        /\ Latest(p)
        /\ Did(p, "ensureStat", "ok")
        /\ calls = 2
        /\ \E u \in DOMAIN before[p].fs : dirname(u) = backupDirOf(workspaceFolders[1])

\* showWarningMessage has been called by the call: it is awaited or has settled
Prompted(p) == pc[p] = "prompt" \/ Tried(p, "prompt")

\* the positions of the log of the call that hold the step
PositionsOf(p, step) == {i \in DOMAIN log[p] : log[p][i].step = step}

\* C33: a save shows the Replace/Cancel prompt at most once, shows it if and only if the
\* stat of its target succeeded, and completes no backup step and no write before it.
C33_PromptIffTargetFound ==
    \A p \in Procs :
        /\ Cardinality(PositionsOf(p, "prompt")) + (IF pc[p] = "prompt" THEN 1 ELSE 0) <= 1
        /\ pc[p] # "idle" => (Prompted(p) <=> Did(p, "stat", "ok"))
        /\ \A i \in PositionsOf(p, "prompt") :
              \A j \in DOMAIN log[p] : log[p][j].step \in BackupSteps \cup {"write"} => i < j
        /\ pc[p] = "prompt" =>
              \A j \in DOMAIN log[p] : log[p][j].step \notin BackupSteps \cup {"write"}

\* a save that was asked once, was told Replace, backed the target up and wrote it, while
\* another save on a target whose stat failed wrote without asking
C33_Witness ==
    \E p, q \in Procs :
        /\ Did(p, "stat", "ok") /\ Did(p, "prompt", "Replace")
        /\ Did(p, "copy", "ok") /\ Did(p, "write", "ok")
        /\ DidAny(q, "stat", {"notFound", "error"}) /\ Did(q, "write", "ok")
        /\ ~Prompted(q)

\* the call has reached an outcome: it returned (saved or declined) or it threw
Terminal(p) == pc[p] = "done" /\ outcome[p] \in {"resolved", "rejected"}

\* a settled call does nothing until its caller calls again, and while no call runs
\* nothing changes the files and the directories
NothingAfterTerminal ==
    [][/\ \A p \in Procs : (Terminal(p) /\ calls' = calls) =>
             (pc'[p] = pc[p] /\ outcome'[p] = outcome[p] /\ log'[p] = log[p])
       /\ Quiescent => (fs' = fs /\ dirs' = dirs)]_vars

\* C34: when every awaited step settles in the end, every call of saveTemplateToWorkspace
\* reaches an outcome (returned or thrown), and takes no step afterwards.
C34_SaveTerminates ==
    /\ \A p \in Procs : Running(p) ~> Terminal(p)
    /\ NothingAfterTerminal

\* a save that went through every await, the creation of the backup directory included
C34_Witness ==
    \E p \in Procs :
        /\ Terminal(p) /\ outcome[p] = "resolved"
        /\ Did(p, "createDirectory", "ok") /\ Did(p, "moveDelete", "ok")
        /\ Did(p, "show", "ok")

\* opening or showing the written document failed
InspectionFailed(p) == Did(p, "open", "error") \/ Did(p, "show", "error")

\* C35: the write of the target precedes the opening of the document and is not undone:
\* when openTextDocument or showTextDocument fails after a successful write, the call
\* throws to its caller, the target holds the converted template, and the backup copy of
\* the call, when one was made, still exists with the original content.
C35_WriteNotRolledBack ==
    \A p \in Procs :
        /\ \A i \in PositionsOf(p, "open") \cup PositionsOf(p, "show") :
              \E j \in PositionsOf(p, "write") : j < i /\ log[p][j].result = "ok"
        /\ (Latest(p) /\ InspectionFailed(p)) =>
              /\ Terminal(p) /\ outcome[p] = "rejected"
              /\ exists(targetUri[p])
              /\ fs[targetUri[p]] = convertTemplateContent(template[p])
              /\ Did(p, "copy", "ok") => (SiblingHolds(p) \/ MovedHolds(p))

\* a save that replaced a different document, moved its backup into the backup directory,
\* wrote the target and then failed to show it
C35_Witness ==
    \E p \in Procs :
        /\ Latest(p) /\ Did(p, "show", "error")
        /\ Did(p, "copy", "ok") /\ MovedHolds(p) /\ ~exists(backupUri[p])
        /\ Original(p) # convertTemplateContent(template[p])
        /\ fs[targetUri[p]] = convertTemplateContent(template[p])
        /\ outcome[p] = "rejected"

\* the UTF-16 code units of the characters of a token, which order JavaScript strings
CharCode ==
    [c \in {"-", ".", ":", "T", "Z"} \cup {Digits[i] : i \in DOMAIN Digits} |->
        CASE c = "-" -> 45
          [] c = "." -> 46
          [] c = ":" -> 58
          [] c = "T" -> 84
          [] c = "Z" -> 90
          [] OTHER -> 48 + (CHOOSE n \in 0..9 : Digit(n) = c)]

\* a < b for two strings given by their characters: at the first place where they differ
\* a has the smaller character, or a is a proper beginning of b
LexLess(a, b) ==
    \/ \E k \in DOMAIN a \cap DOMAIN b :
          /\ \A i \in 1..(k - 1) : a[i] = b[i]
          /\ CharCode[a[k]] < CharCode[b[k]]
    \/ /\ Len(a) < Len(b)
       /\ \A i \in DOMAIN a : a[i] = b[i]

\* the characters of the timestamp token of a clock reading
tokenChars(t) == replaceColonDot(toISOString(t))

\* C36: the timestamp token orders like time: of two clock readings the earlier one has
\* the lexicographically smaller token, and no token contains ':' or '.'.
C36_TokenOrdersLikeTime ==
    Named =>
        /\ \A n \in {probe.first, probe.second} :
              /\ n.timestamp = Join(tokenChars(n.now))
              /\ \A i \in DOMAIN tokenChars(n.now) : tokenChars(n.now)[i] \notin {":", "."}
        /\ probe.first.now < probe.second.now =>
              LexLess(tokenChars(probe.first.now), tokenChars(probe.second.now))

\* two readings a millisecond apart across midnight
C36_Witness ==
    /\ Named
    /\ probe.first.now = 86399999 /\ probe.second.now = 86400000
    /\ probe.first.timestamp = "2024-01-01T23-59-59-999Z"
    /\ probe.second.timestamp = "2024-01-02T00-00-00-000Z"
    /\ LexLess(tokenChars(probe.first.now), tokenChars(probe.second.now))

\* the probe holds the result of getTemplateCategories()
Categorised == probe.op = "getTemplateCategories"

\* the directories and the plain files directly under the rules directory
CategoryDirs == {x \in dirs : Len(x) > 0 /\ dirname(x) = rulesPath}
PlainFiles == {x \in DOMAIN fs : Len(x) > 0 /\ dirname(x) = rulesPath}

\* C37: getTemplateCategories returns exactly the names of the entries of the rules
\* directory that are directories, each once, and no name of a plain file.
C37_CategoriesAreTheDirectories ==
    (Categorised /\ probe.result.status = "fulfilled") =>
        LET names == probe.result.value IN
        /\ {names[i] : i \in DOMAIN names} = {fileNameOf(x) : x \in CategoryDirs}
        /\ \A i, j \in DOMAIN names : i # j => names[i] # names[j]
        /\ \A x \in PlainFiles : \A i \in DOMAIN names : names[i] # fileNameOf(x)

\* the categories of a library of two directories and a plain file have been returned
C37_Witness ==
    /\ Categorised /\ probe.result.status = "fulfilled"
    /\ Len(probe.result.value) = 2
    /\ probe.result.value[1] # probe.result.value[2]
    /\ joinPath(rulesPath, "README.md") \in PlainFiles

====
